---- MODULE Spec2Model ----
(***************************************************************************)
(* The daily-sale ledger of src/server.js: the dailySales collection, the  *)
(* POST /api/daily-sale handler and the helper recalculateFutureDues.      *)
(*                                                                         *)
(* Money is fixed-point, in thousandths of the currency unit, so that      *)
(* sub-cent amounts (120.555 is 120555) and the rounding of toFixed(2)     *)
(* are visible.  Dates are day numbers; the code compares the YYYY-MM-DD   *)
(* strings, whose order is the order of the days.                          *)
(*                                                                         *)
(* Every await of the code is one step of the model, so that two requests  *)
(* can interleave exactly where the event loop lets them.                  *)
(***************************************************************************)
EXTENDS Integers, Sequences, FiniteSets, TLC

VARIABLES db, nextId, req, ops, snap, rerun, lastCommit

vars == <<db, nextId, req, ops, snap, rerun, lastCommit>>

(* ------------------------------ bounds -------------------------------- *)

MaxDate == 4
MaxOps == 3

Dates == 1..MaxDate
Salesmen == {"s1", "s2"}
Procs == {"A", "B"}

(* --------------------------- JS values -------------------------------- *)

\* A field of a schema-flexible document: a number, or missing
\* (undefined / null).
N(v) == [t |-> "num", v |-> v]
Missing == [t |-> "none", v |-> 0]
\* a string that is no number, as Number() sees it: NaN
NaS == [t |-> "str", v |-> 0]
\* an entry of categories that is null or undefined, not an object
NullEntry == [t |-> "null", v |-> 0]
\* a categories value that is no array
NotAList == <<[t |-> "notarray", v |-> 0]>>

\* a ?? b
Coalesce(a, b) == IF a.t = "none" THEN b ELSE a

\* Number(x) || 0
NumOr0(x) == IF x.t = "num" THEN x.v ELSE 0

\* Number(x.toFixed(2)): to the nearest hundredth, a tie away from zero.
ToFixed2(x) ==
  IF x >= 0 THEN ((x + 5) \div 10) * 10 ELSE -((((-x) + 5) \div 10) * 10)

(* ------------------------ collection queries -------------------------- *)

\* s with r placed after every element that sorts before or equal to it.
RECURSIVE InsertByDate(_, _, _)
InsertByDate(r, s, desc) ==
  IF s = <<>> THEN <<r>>
  ELSE IF (IF desc THEN Head(s).date >= r.date ELSE Head(s).date <= r.date)
       THEN <<Head(s)>> \o InsertByDate(r, Tail(s), desc)
       ELSE <<r>> \o s

\* cursor.sort({date: 1}) / cursor.sort({date: -1}); ties keep natural order.
RECURSIVE SortByDate(_, _)
SortByDate(s, desc) ==
  IF s = <<>> THEN <<>>
  ELSE InsertByDate(s[Len(s)], SortByDate(SubSeq(s, 1, Len(s) - 1), desc), desc)

\* $gte for $gt: the record of the anchor date is fetched with the later ones.
FindFutureGte(coll, salesmanId, fromDate) ==
  SortByDate(SelectSeq(coll, LAMBDA r : r.salesmanId = salesmanId /\ r.date >= fromDate),
             FALSE)

\* find({date: {$gt: fromDate}}): the later records of every salesman.
FindFutureOfAnyone(coll, salesmanId, fromDate) ==
  SortByDate(SelectSeq(coll, LAMBDA r : r.date > fromDate), FALSE)

\* find({salesmanId, date: {$gt: fromDate}}).sort({date: 1}).toArray()
FindFuture(coll, salesmanId, fromDate) ==
  SortByDate(SelectSeq(coll, LAMBDA r : r.salesmanId = salesmanId /\ r.date > fromDate),
             FALSE)

\* findOne({salesmanId, date: fromDate}): the first match in natural order,
\* as a sequence of at most one document.
FindOne(coll, salesmanId, fromDate) ==
  LET m == SelectSeq(coll, LAMBDA r : r.salesmanId = salesmanId /\ r.date = fromDate)
  IN IF m = <<>> THEN <<>> ELSE <<Head(m)>>

\* sort({date: 1}) for sort({date: -1}): the oldest record, not the latest.
FindLastOldest(coll, salesmanId, fromDate) ==
  LET m == SortByDate(SelectSeq(coll, LAMBDA r : r.salesmanId = salesmanId
                                                  /\ r.date < fromDate), FALSE)
  IN IF m = <<>> THEN <<>> ELSE <<Head(m)>>

\* find({salesmanId, date: {$lt: fromDate}}).sort({date: -1}).limit(1).toArray()
FindLast(coll, salesmanId, fromDate) ==
  LET m == SortByDate(SelectSeq(coll, LAMBDA r : r.salesmanId = salesmanId
                                                  /\ r.date < fromDate), TRUE)
  IN IF m = <<>> THEN <<>> ELSE <<Head(m)>>

\* deleteMany({date})
DeleteMany(coll, date) == SelectSeq(coll, LAMBDA r : r.date # date)

\* updateMany({salesmanId: sale.salesmanId}, {$set: fields}): every record of
\* the salesman of the document with that _id is written.
UpdateManyOfSalesman(coll, id, f) ==
  [i \in 1..Len(coll) |->
     IF \E j \in 1..Len(coll) : coll[j].id = id /\ coll[j].salesmanId = coll[i].salesmanId
     THEN [coll[i] EXCEPT !.prevDue = f.prevDue, !.totalAmount = f.totalAmount,
                          !.totalDue = f.totalDue, !.currDue = f.currDue]
     ELSE coll[i]]

\* updateOne({_id}, {$set: fields}): no document with that _id, no change.
UpdateOne(coll, id, f) ==
  [i \in 1..Len(coll) |->
     IF coll[i].id = id
     THEN [coll[i] EXCEPT !.prevDue = f.prevDue, !.totalAmount = f.totalAmount,
                          !.totalDue = f.totalDue, !.currDue = f.currDue]
     ELSE coll[i]]

(* ---------------------- recalculateFutureDues ------------------------- *)

\* prevDue = lastDay.currDue ?? lastDay.currentDue ?? lastDay.due ?? 0
SeedFromAnchor(lastDay) ==
  Coalesce(lastDay.currDue, Coalesce(lastDay.currentDue, Coalesce(lastDay.due, N(0))))

\* prevDue = last[0]?.currDue ?? 0
SeedFromLast(last) ==
  IF last = <<>> THEN N(0) ELSE Coalesce(last[1].currDue, N(0))

\* const categories = Array.isArray(sale.categories) ? sale.categories : []
Categories(sale) == IF sale.categories = NotAList THEN <<>> ELSE sale.categories

\* sale.categories.reduce(...) with no Array.isArray before it: a TypeError
\* for a value that is no array as well.
ThrowsWithoutArrayGuard(sale) ==
  sale.categories = NotAList \/ \E i \in 1..Len(sale.categories) : sale.categories[i].t = "null"

\* c.total of an entry that is null or undefined is a TypeError, thrown out
\* of reduce and of recalculateFutureDues.
ThrowsOnData(sale) ==
  \E i \in 1..Len(Categories(sale)) : Categories(sale)[i].t = "null"

\* categories.reduce((sum, c) => sum + (Number(c.total) || 0), 0), an entry
\* being given by its total
RECURSIVE SumTotals(_)
SumTotals(cats) ==
  IF cats = <<>> THEN 0 ELSE SumTotals(SubSeq(cats, 1, Len(cats) - 1)) + NumOr0(cats[Len(cats)])

\* The body of the loop over futureSales: the $set of one record and the
\* running balance carried to the next one.
NewPrevDue(prevDue) == NumOr0(prevDue)
RawTotalDue(sale, prevDue) == SumTotals(Categories(sale)) + NewPrevDue(prevDue)
RawCurrDue(sale, prevDue) == RawTotalDue(sale, prevDue) - NumOr0(sale.deposit)

StoredPrevDue(prevDue) == N(NewPrevDue(prevDue))

\* totalDue and currDue computed from the rounded totalAmount.
SetFieldsFromRounded(sale, prevDue) ==
  LET totalAmount == ToFixed2(SumTotals(Categories(sale)))
      totalDue == totalAmount + NewPrevDue(prevDue)
  IN [prevDue     |-> StoredPrevDue(prevDue),
      totalAmount |-> N(totalAmount),
      totalDue    |-> N(ToFixed2(totalDue)),
      currDue     |-> N(ToFixed2(totalDue - NumOr0(sale.deposit)))]

SetFields(sale, prevDue) ==
  [prevDue     |-> StoredPrevDue(prevDue),
   totalAmount |-> N(ToFixed2(SumTotals(Categories(sale)))),
   totalDue    |-> N(ToFixed2(RawTotalDue(sale, prevDue))),
   currDue     |-> N(ToFixed2(RawCurrDue(sale, prevDue)))]

\* prevDue = currDue
CarriedDue(sale, prevDue) == N(RawCurrDue(sale, prevDue))

\* The loop over futureSales, run without interruption.
RECURSIVE CascadeFold(_, _, _)
CascadeFold(coll, futureSales, prevDue) ==
  IF futureSales = <<>> \/ ThrowsOnData(Head(futureSales)) THEN coll
  ELSE LET sale == Head(futureSales)
       IN CascadeFold(UpdateOne(coll, sale.id, SetFields(sale, prevDue)),
                      Tail(futureSales), CarriedDue(sale, prevDue))

\* recalculateFutureDues(salesmanId, fromDate) run alone on coll: the store
\* it leaves.
RecalculateAlone(coll, salesmanId, fromDate) ==
  LET lastDay == FindOne(coll, salesmanId, fromDate)
  IN CascadeFold(coll, FindFuture(coll, salesmanId, fromDate),
                 IF lastDay # <<>> THEN SeedFromAnchor(lastDay[1])
                 ELSE SeedFromLast(FindLast(coll, salesmanId, fromDate)))

(* --------------------------- requests --------------------------------- *)

IdleReq ==
  [kind |-> "none", pc |-> "idle", date |-> 0, sales |-> <<>>, todo |-> <<>>,
   salesmanId |-> "s1", futureSales |-> <<>>, prevDue |-> Missing,
   status |-> 0, emitted |-> FALSE, outcome |-> "none", failedAt |-> "none",
   seed |-> <<>>, clean |-> TRUE, cascaded |-> <<>>, response |-> <<>>]

\* seed, clean and cascaded are history: the value prevDue had when the loop
\* over futureSales was entered, whether every request of this slot so far
\* went without a thrown store error, and the salesmen whose call of
\* recalculateFutureDues has returned to the handler, in the order of the
\* returns. response is the body of the answer of a GET.
Fresh(p) == [IdleReq EXCEPT !.clean = req[p].clean]

Free(p) == req[p].pc \in {"idle", "done"}


\* What a thrown store error does to the request that awaited it: inside the
\* handler's try block it reaches the catch (500); a cascade invoked on its
\* own rejects.
Throw(r, where) ==
  IF r.kind = "post"
  THEN [r EXCEPT !.pc = "done", !.status = 500, !.failedAt = where, !.clean = FALSE]
  ELSE [r EXCEPT !.pc = "done", !.outcome = "rejected", !.failedAt = where,
                 !.clean = FALSE]

\* sales.map((s) => s.salesmanId) with no Set: one cascade per entry.
EverySalesmanId(sales) == [i \in 1..Len(sales) |-> sales[i].salesmanId]

\* [...new Set(sales.map((s) => s.salesmanId))]: first occurrences, in order.
RECURSIVE UniqueSalesmen(_)
UniqueSalesmen(sales) ==
  IF sales = <<>> THEN <<>>
  ELSE LET init == UniqueSalesmen(SubSeq(sales, 1, Len(sales) - 1))
           sid == sales[Len(sales)].salesmanId
       IN IF \E i \in 1..Len(init) : init[i] = sid THEN init ELSE Append(init, sid)

\* sales.map((sale) => ({...sale, date, ...})), with the _id the driver gives.
\* selectedCategories is stored too; nothing of the ledger reads it.
DocOf(sale, date, id) ==
  [id |-> id, salesmanId |-> sale.salesmanId, date |-> date,
   categories |-> sale.categories, deposit |-> sale.deposit,
   prevDue |-> sale.prevDue, totalAmount |-> sale.totalAmount,
   totalDue |-> sale.totalDue, currDue |-> sale.currDue,
   currentDue |-> sale.currentDue, due |-> sale.due]

DocsOf(sales, date, firstId) ==
  [i \in 1..Len(sales) |-> DocOf(sales[i], date, firstId + i - 1)]

\* The handler's for-loop over uniqueSalesmen, entered with the salesmen
\* still to do: the next call of recalculateFutureDues, or past the loop.
NextSalesman(r, todo) ==
  IF todo = <<>>
  THEN [r EXCEPT !.pc = "emit", !.todo = <<>>]
  ELSE [r EXCEPT !.pc = "find_future", !.salesmanId = Head(todo), !.todo = Tail(todo)]

\* recalculateFutureDues has no record left to rewrite: it returns.
CascadeReturn(r) ==
  IF r.kind = "post"
  THEN NextSalesman([r EXCEPT !.cascaded = Append(@, r.salesmanId)], r.todo)
  ELSE [r EXCEPT !.pc = "done", !.outcome = "ok"]

\* The top of the loop over futureSales.
LoopOrReturn(r) ==
  IF r.futureSales = <<>> THEN CascadeReturn(r) ELSE [r EXCEPT !.pc = "update"]

\* let prevDue receive its starting value, then enter the loop.
Seeded(r, v) == LoopOrReturn([r EXCEPT !.prevDue = v, !.seed = <<v>>])

(* ----------------------------- inputs --------------------------------- *)

Fields(cats, dep, prev, ta, td, cur, legacy, due) ==
  [categories |-> cats, deposit |-> dep, prevDue |-> prev, totalAmount |-> ta,
   totalDue |-> td, currDue |-> cur, currentDue |-> legacy, due |-> due]

\* currDue 100, written by the current schema
TA == Fields(<<N(100000)>>, N(0), N(0), N(100000), N(100000), N(100000), Missing, Missing)
\* categories 120.555 and 30, deposit 50, prevDue 10
TB == Fields(<<N(120555), N(30000)>>, N(50000), N(10000), N(150560), N(160560),
             N(110560), Missing, Missing)
\* an older schema: currentDue 75 and due 20, no currDue
TC == Fields(<<>>, Missing, Missing, Missing, Missing, Missing, N(75000), N(20000))
\* a balance 10.005 with more than 2 decimals, sub-cent sale and deposit
TD == Fields(<<N(4)>>, N(1), Missing, Missing, Missing, N(10005), Missing, Missing)
\* the oldest schema: due 20 only; a deposit 30.005 larger than the sale
TE == Fields(<<N(10000)>>, N(30005), Missing, Missing, Missing, Missing, Missing, N(20000))

Sale(sid, f) ==
  [salesmanId |-> sid, categories |-> f.categories, deposit |-> f.deposit,
   prevDue |-> f.prevDue, totalAmount |-> f.totalAmount, totalDue |-> f.totalDue,
   currDue |-> f.currDue, currentDue |-> f.currentDue, due |-> f.due]

\* The sales arrays a client submits.
Batches ==
  { <<Sale("s1", TA)>>, <<Sale("s1", TB)>>, <<Sale("s2", TD)>>,
    <<Sale("s1", TC), Sale("s2", TA)>>, <<Sale("s1", TA), Sale("s1", TD)>>, <<>> }

(* ------------------------- POST /api/daily-sale ----------------------- *)

\* The request arrives; date 0 is a missing date (a sales value that is no
\* array is answered the same way).
PostStart(p, date, sales) ==
  /\ Free(p)
  /\ ops < MaxOps
  /\ ops' = ops + 1
  /\ req' = [req EXCEPT ![p] =
               IF date = 0
               THEN [Fresh(p) EXCEPT !.kind = "post", !.pc = "done", !.status = 400]
               ELSE [Fresh(p) EXCEPT !.kind = "post", !.pc = "delete", !.date = date,
                                     !.sales = sales]]
  /\ UNCHANGED <<db, nextId, snap, rerun, lastCommit>>

\* await dailySalesCollection.deleteMany({ date })
PostDelete(p, F) ==
  /\ req[p].pc = "delete"
  /\ \E fail \in F :
       IF fail
       THEN /\ req' = [req EXCEPT ![p] = Throw(@, "delete")]
            /\ UNCHANGED db
       ELSE /\ db' = DeleteMany(db, req[p].date)
            /\ req' = [req EXCEPT ![p].pc = "insert"]
  /\ UNCHANGED <<nextId, ops, snap, rerun, lastCommit>>

\* await dailySalesCollection.insertMany(...): an ordered bulk insert, which
\* the driver refuses for an empty array and which stops at its first error.
PostInsert(p, F) ==
  /\ req[p].pc = "insert"
  /\ LET sales == req[p].sales
         docs == DocsOf(sales, req[p].date, nextId)
     IN \E fail \in F :
          IF fail \/ sales = <<>>
          THEN \E k \in 0..(IF sales = <<>> THEN 0 ELSE Len(sales) - 1) :
                 /\ db' = db \o SubSeq(docs, 1, k)
                 /\ nextId' = nextId + k
                 /\ req' = [req EXCEPT ![p] = Throw(@, "insert")]
                 /\ UNCHANGED lastCommit
          ELSE /\ db' = db \o docs
               /\ nextId' = nextId + Len(sales)
               /\ req' = [req EXCEPT ![p] = NextSalesman(@, UniqueSalesmen(sales))]
               /\ lastCommit' = p
  /\ UNCHANGED <<ops, snap, rerun>>

\* io.emit("daily-sale-updated", { date })
PostEmit(p) ==
  /\ req[p].pc = "emit"
  /\ req' = [req EXCEPT ![p].pc = "respond", ![p].emitted = TRUE]
  /\ UNCHANGED <<db, nextId, ops, snap, rerun, lastCommit>>

\* res.status(201).json(...)
PostRespond(p) ==
  /\ req[p].pc = "respond"
  /\ req' = [req EXCEPT ![p].pc = "done", ![p].status = 201]
  /\ UNCHANGED <<db, nextId, ops, snap, rerun, lastCommit>>

(* ------------------- recalculateFutureDues, by await ------------------ *)

\* const futureSales = await ...find({salesmanId, date: {$gt}}).sort().toArray()
CascadeFindFuture(p, F) ==
  /\ req[p].pc = "find_future"
  /\ \E fail \in F :
       req' = [req EXCEPT ![p] =
                 IF fail THEN Throw(@, "find_future")
                 ELSE [@ EXCEPT !.pc = "find_anchor",
                                !.futureSales = FindFuture(db, req[p].salesmanId,
                                                           req[p].date)]]
  /\ UNCHANGED <<db, nextId, ops, snap, rerun, lastCommit>>

\* const lastDay = await ...findOne({salesmanId, date: fromDate})
CascadeFindAnchor(p, F) ==
  /\ req[p].pc = "find_anchor"
  /\ LET lastDay == FindOne(db, req[p].salesmanId, req[p].date)
     IN \E fail \in F :
          req' = [req EXCEPT ![p] =
                    IF fail THEN Throw(@, "find_anchor")
                    ELSE IF lastDay # <<>>
                    THEN Seeded(@, SeedFromAnchor(lastDay[1]))
                    ELSE [@ EXCEPT !.pc = "find_last"]]
  /\ UNCHANGED <<db, nextId, ops, snap, rerun, lastCommit>>

\* const last = await ...find({salesmanId, date: {$lt}}).sort({date: -1}).limit(1)
CascadeFindLast(p, F) ==
  /\ req[p].pc = "find_last"
  /\ LET last == FindLast(db, req[p].salesmanId, req[p].date)
     IN \E fail \in F :
          req' = [req EXCEPT ![p] =
                    IF fail THEN Throw(@, "find_last")
                    ELSE Seeded(@, SeedFromLast(last))]
  /\ UNCHANGED <<db, nextId, ops, snap, rerun, lastCommit>>

\* The loop inside a transaction: a thrown updateOne takes back the records
\* already rewritten.
CascadeUpdateRollback(p, F) ==
  /\ req[p].pc = "update"
  /\ LET sale == Head(req[p].futureSales)
         prevDue == req[p].prevDue
     IN \E fail \in F :
          IF ThrowsOnData(sale)
          THEN /\ req' = [req EXCEPT ![p] = Throw(@, "reduce")]
               /\ UNCHANGED db
          ELSE IF fail
          THEN /\ req' = [req EXCEPT ![p] = Throw(@, "update")]
               /\ db' = snap
          ELSE /\ db' = UpdateOne(db, sale.id, SetFields(sale, prevDue))
               /\ req' = [req EXCEPT ![p] =
                            LoopOrReturn([@ EXCEPT !.prevDue = CarriedDue(sale, prevDue),
                                                   !.futureSales = Tail(@)])]
  /\ UNCHANGED <<nextId, ops, snap, rerun, lastCommit>>

\* One turn of the loop: the new fields are computed, which throws for a
\* null entry of categories; await ...updateOne({_id: sale._id}, {$set}),
\* then prevDue = currDue.
CascadeUpdate(p, F) ==
  /\ req[p].pc = "update"
  /\ LET sale == Head(req[p].futureSales)
         prevDue == req[p].prevDue
     IN \E fail \in F :
          IF ThrowsOnData(sale)
          THEN /\ req' = [req EXCEPT ![p] = Throw(@, "reduce")]
               /\ UNCHANGED db
          ELSE IF fail
          THEN /\ req' = [req EXCEPT ![p] = Throw(@, "update")]
               /\ UNCHANGED db
          ELSE /\ db' = UpdateOne(db, sale.id, SetFields(sale, prevDue))
               /\ req' = [req EXCEPT ![p] =
                            LoopOrReturn([@ EXCEPT !.prevDue = CarriedDue(sale, prevDue),
                                                   !.futureSales = Tail(@)])]
  /\ UNCHANGED <<nextId, ops, snap, rerun, lastCommit>>

\* recalculateFutureDues(salesmanId, fromDate), called on its own. snap is
\* history: the store as the call finds it.
CascadeStart(p, salesmanId, fromDate) ==
  /\ Free(p)
  /\ ops = 0
  /\ ops' = 1
  /\ snap' = db
  /\ req' = [req EXCEPT ![p] = [Fresh(p) EXCEPT !.kind = "direct", !.pc = "find_future",
                                               !.salesmanId = salesmanId,
                                               !.date = fromDate]]
  /\ UNCHANGED <<db, nextId, rerun, lastCommit>>

\* The same call again, right after the first has returned.
CascadeRerun(p) ==
  /\ req[p].kind = "direct"
  /\ req[p].pc = "done"
  /\ req[p].outcome = "ok"
  /\ ~rerun
  /\ rerun' = TRUE
  /\ snap' = db
  /\ req' = [req EXCEPT ![p] = [Fresh(p) EXCEPT !.kind = "direct", !.pc = "find_future",
                                               !.salesmanId = req[p].salesmanId,
                                               !.date = req[p].date]]
  /\ UNCHANGED <<db, nextId, ops, lastCommit>>

CascadeStep(p, F) ==
  \/ CascadeFindFuture(p, F)
  \/ CascadeFindAnchor(p, F)
  \/ CascadeFindLast(p, F)
  \/ CascadeUpdate(p, F)

PostStep(p, F) ==
  \/ PostDelete(p, F)
  \/ PostInsert(p, F)
  \/ PostEmit(p)
  \/ PostRespond(p)

(* ------------------- the server, one request at a time ---------------- *)

Init ==
  /\ db = <<>>
  /\ nextId = 1
  /\ req = [p \in Procs |-> IdleReq]
  /\ ops = 0
  /\ snap = <<>>
  /\ rerun = FALSE
  /\ lastCommit = "none"

\* A salesman of the batch has a record on the date when his cascade runs, so
\* with one request at a time the lookup of an earlier record is never made.
Next ==
  \/ \E date \in 0..MaxDate, sales \in Batches : PostStart("A", date, sales)
  \/ PostStep("A", BOOLEAN)
  \/ CascadeFindFuture("A", BOOLEAN)
  \/ CascadeFindAnchor("A", BOOLEAN)
  \/ CascadeUpdate("A", BOOLEAN)

Spec == Init /\ [][Next]_vars

(* --------------- recalculateFutureDues on a given store --------------- *)

TemplateSeq == <<TA, TB, TC, TD, TE>>

\* The records of s1 on those of the days 1..d that have the given parity,
\* day i holding template f[i] (0: no record), in the order of the days.
RECURSIVE StoreUpTo(_, _, _)
StoreUpTo(f, d, parity) ==
  IF d = 0 THEN <<>>
  ELSE StoreUpTo(f, d - 1, parity)
       \o (IF f[d] = 0 \/ d % 2 # parity THEN <<>>
           ELSE <<DocOf(Sale("s1", TemplateSeq[f[d]]), d, d)>>)

\* Stores with at most one record per salesman and day: s1's records of the
\* odd days, then a record of s2, then s1's records of the even days, so that
\* the insertion order is not the order of the dates.
InitStores ==
  { StoreUpTo(f, MaxDate, 1) \o <<DocOf(Sale("s2", TB), 2, MaxDate + 1)>>
    \o StoreUpTo(f, MaxDate, 0) : f \in [Dates -> 0..Len(TemplateSeq)] }

InitCascade ==
  /\ db \in InitStores
  /\ nextId = MaxDate + 2
  /\ req = [p \in Procs |-> IdleReq]
  /\ ops = 0
  /\ snap = <<>>
  /\ rerun = FALSE
  /\ lastCommit = "none"

NextCascade ==
  \/ \E salesmanId \in Salesmen, fromDate \in Dates : CascadeStart("A", salesmanId, fromDate)
  \/ CascadeStep("A", BOOLEAN)
  \/ CascadeRerun("A")

SpecCascade == InitCascade /\ [][NextCascade]_vars

(* ---------------------- two submissions at once ----------------------- *)

\* s1 has a record on every day.
RaceStore == StoreUpTo([d \in Dates |-> 1], MaxDate, 1) \o StoreUpTo([d \in Dates |-> 1], MaxDate, 0)

RaceBatches == { <<Sale("s1", TA)>>, <<Sale("s1", TB)>> }

InitRace ==
  /\ db = RaceStore
  /\ nextId = MaxDate + 2
  /\ req = [p \in Procs |-> IdleReq]
  /\ ops = 0
  /\ snap = <<>>
  /\ rerun = FALSE
  /\ lastCommit = "none"

\* Each of the two clients submits once; no store operation fails.
NextRace ==
  \E p \in Procs :
    \/ \E date \in Dates, sales \in RaceBatches :
         req[p].pc = "idle" /\ PostStart(p, date, sales)
    \/ PostStep(p, {FALSE})
    \/ CascadeStep(p, {FALSE})

SpecRace == InitRace /\ [][NextRace]_vars

(* ------------- one submission to a store that has a history ----------- *)

\* The salesmanId of a sales entry that carries none: the driver sends an
\* undefined value of a filter as null, which matches the documents where
\* the field is missing.
NoSalesman == "undefined"

\* The records before the submission: for s1 every day holds no record, TA
\* or TC, s2 has one record, and the due fields are those a cascade from
\* before the first day leaves for each of them, so that the chain of every
\* salesman is continuous.
PostStores ==
  { RecalculateAlone(
      RecalculateAlone(StoreUpTo(f, MaxDate, 1) \o <<DocOf(Sale("s2", TB), 2, MaxDate + 1)>>
                       \o StoreUpTo(f, MaxDate, 0), "s1", 0), "s2", 0) :
    f \in [Dates -> {0, 1, 3}] }

PostBatches ==
  Batches \cup { <<Sale(NoSalesman, TA), Sale("s2", TD)>>,
                 <<Sale("s1", TA), Sale("s2", TB), Sale("s1", TD)>> }

InitPost ==
  /\ db \in PostStores
  /\ nextId = MaxDate + 2
  /\ req = [p \in Procs |-> IdleReq]
  /\ ops = 0
  /\ snap = <<>>
  /\ rerun = FALSE
  /\ lastCommit = "none"

\* One request, received once.
NextPost ==
  \/ \E date \in 0..MaxDate, sales \in PostBatches :
       req["A"].pc = "idle" /\ PostStart("A", date, sales)
  \/ PostStep("A", BOOLEAN)
  \/ CascadeFindFuture("A", BOOLEAN)
  \/ CascadeFindAnchor("A", BOOLEAN)
  \/ CascadeUpdate("A", BOOLEAN)

SpecPost == InitPost /\ [][NextPost]_vars

(* ------------- recalculateFutureDues on records of bad data ----------- *)

\* totals missing, not a number and 50; a deposit that is not a number
TF == Fields(<<Missing, NaS, N(50000)>>, NaS, N(0), N(50000), N(50000), N(50000),
             Missing, Missing)
\* categories that is no array; no deposit
TG == Fields(NotAList, Missing, Missing, Missing, Missing, N(40000), Missing, Missing)
\* an entry of categories that is null
TH == Fields(<<N(70000), NullEntry>>, N(0), N(0), N(70000), N(70000), N(70000),
             Missing, Missing)

DataTemplates == <<TA, TF, TG, TH>>

RECURSIVE DataStoreUpTo(_, _, _)
DataStoreUpTo(f, d, parity) ==
  IF d = 0 THEN <<>>
  ELSE DataStoreUpTo(f, d - 1, parity)
       \o (IF f[d] = 0 \/ d % 2 # parity THEN <<>>
           ELSE <<DocOf(Sale("s1", DataTemplates[f[d]]), d, d)>>)

DataStores ==
  { DataStoreUpTo(f, MaxDate, 1) \o <<DocOf(Sale("s2", TF), 2, MaxDate + 1)>>
    \o DataStoreUpTo(f, MaxDate, 0) : f \in [Dates -> 0..Len(DataTemplates)] }

InitData ==
  /\ db \in DataStores
  /\ nextId = MaxDate + 2
  /\ req = [p \in Procs |-> IdleReq]
  /\ ops = 0
  /\ snap = <<>>
  /\ rerun = FALSE
  /\ lastCommit = "none"

SpecData == InitData /\ [][NextCascade]_vars

(* ---------------- two calls of recalculateFutureDues at once ----------- *)

\* The records of s2 on the days 1..d but day 2, day i holding the template
\* after the i-th, with ids after those of s1.
RECURSIVE StoreOfS2(_)
StoreOfS2(d) ==
  IF d = 0 THEN <<>>
  ELSE StoreOfS2(d - 1)
       \o (IF d = 2 THEN <<>>
           ELSE <<DocOf(Sale("s2", TemplateSeq[(d % Len(TemplateSeq)) + 1]), d, MaxDate + d)>>)

\* s1 has no record, TB or TE on each day; the records of s2 lie between
\* those of s1 in natural order.
PairStores ==
  { StoreUpTo(f, MaxDate, 1) \o StoreOfS2(MaxDate) \o StoreUpTo(f, MaxDate, 0) :
    f \in [Dates -> {0, 2, 5}] }

InitPair ==
  /\ db \in PairStores
  /\ nextId = 2 * MaxDate + 1
  /\ req = [p \in Procs |-> IdleReq]
  /\ ops = 0
  /\ snap = <<>>
  /\ rerun = FALSE
  /\ lastCommit = "none"

\* recalculateFutureDues is called for two salesmen, neither call awaited
\* before the other is made. snap is history: the store as the calls find it.
CascadePairStart(salesmanIdA, fromDateA, salesmanIdB, fromDateB) ==
  /\ \A p \in Procs : req[p].pc = "idle"
  /\ ops = 0
  /\ ops' = 2
  /\ snap' = db
  /\ req' = [req EXCEPT
               !["A"] = [Fresh("A") EXCEPT !.kind = "direct", !.pc = "find_future",
                                           !.salesmanId = salesmanIdA,
                                           !.date = fromDateA],
               !["B"] = [Fresh("B") EXCEPT !.kind = "direct", !.pc = "find_future",
                                           !.salesmanId = salesmanIdB,
                                           !.date = fromDateB]]
  /\ UNCHANGED <<db, nextId, rerun, lastCommit>>

NextPair ==
  \/ \E fromDateA, fromDateB \in Dates : CascadePairStart("s1", fromDateA, "s2", fromDateB)
  \/ CascadeStep("A", {FALSE})
  \/ CascadeStep("B", {FALSE})

SpecPair == InitPair /\ [][NextPair]_vars

(* ---------------------- GET /api/daily-sale/:date --------------------- *)

\* salesmenCollection.find().toArray(): the salesmen the server knows.
AllSalesmen == <<"s1", "s2">>

\* salesMap[sale.salesmanId] = sale, for the documents of one date: a later
\* document of the same salesman overwrites the earlier one.
SalesMap(coll, salesmanId, date) ==
  LET m == SelectSeq(coll, LAMBDA r : r.salesmanId = salesmanId /\ r.date = date)
  IN IF m = <<>> THEN <<>> ELSE <<m[Len(m)]>>

\* d.setDate(d.getDate() - 1); d.toISOString().slice(0, 10)
PrevDate(date) == date - 1

\* prevDueMap[sale.salesmanId] = sale.currDue ?? sale.currentDue ?? sale.due ?? 0
\* for the documents of prevDate; no entry is undefined.
PrevDueMap(coll, salesmanId, date) ==
  LET m == SalesMap(coll, salesmanId, PrevDate(date))
  IN IF m = <<>> THEN Missing
     ELSE Coalesce(m[1].currDue, Coalesce(m[1].currentDue, Coalesce(m[1].due, N(0))))

\* sort({date: 1}) for sort({date: -1}): the due of the oldest record.
GetLastKnownDueOldest(coll, salesmanId, date) ==
  LET last == FindLastOldest(coll, salesmanId, date)
  IN IF last = <<>> THEN N(0) ELSE Coalesce(last[1].currDue, N(0))

\* getLastKnownDue: find({salesmanId, date: {$lt: date}}).sort({date: -1})
\* .limit(1), then last[0]?.currDue ?? 0
GetLastKnownDue(coll, salesmanId, date) ==
  LET last == FindLast(coll, salesmanId, date)
  IN IF last = <<>> THEN N(0) ELSE Coalesce(last[1].currDue, N(0))

\* today.prevDue === undefined || === null || === "" || Number(today.prevDue) === 0
NeedsFill(prevDue) == prevDue.t = "none" \/ (prevDue.t = "num" /\ prevDue.v = 0)

\* The entry pushed to finalDocs for one salesman; a synthesized entry has
\* no _id (0) and no legacy field.
FinalDoc(coll, salesmanId, date) ==
  LET today == SalesMap(coll, salesmanId, date)
      fallbackDue == Coalesce(PrevDueMap(coll, salesmanId, date),
                              GetLastKnownDue(coll, salesmanId, date))
  IN IF today # <<>>
     THEN IF NeedsFill(today[1].prevDue)
          THEN [today[1] EXCEPT !.prevDue = Coalesce(PrevDueMap(coll, salesmanId, date), N(0))]
          ELSE today[1]
     ELSE [id |-> 0, salesmanId |-> salesmanId, date |-> date, categories |-> <<>>,
           deposit |-> N(0), prevDue |-> fallbackDue, totalAmount |-> N(0),
           totalDue |-> fallbackDue, currDue |-> fallbackDue,
           currentDue |-> Missing, due |-> Missing]

FinalDocs(coll, date) ==
  [i \in 1..Len(AllSalesmen) |-> FinalDoc(coll, AllSalesmen[i], date)]

\* The whole handler: its reads are taken together, which is what they are
\* when no other request runs; the filled prevDue lives in the answer only.
GetDailySale(p, date, F) ==
  /\ Free(p)
  /\ ops < MaxOps
  /\ ops' = ops + 1
  /\ \E fail \in F :
       req' = [req EXCEPT ![p] =
                 IF fail
                 THEN [Fresh(p) EXCEPT !.kind = "get", !.pc = "done", !.date = date,
                                       !.status = 500, !.failedAt = "get"]
                 ELSE [Fresh(p) EXCEPT !.kind = "get", !.pc = "done", !.date = date,
                                       !.status = 200,
                                       !.response = FinalDocs(db, date)]]
  /\ UNCHANGED <<db, nextId, snap, rerun, lastCommit>>

(* ------------- reading the ledger after a recalculation --------------- *)

\* A call of recalculateFutureDues on its own, or none, no store call of
\* which throws, and then one GET.
NextRead ==
  \/ \E salesmanId \in Salesmen, fromDate \in Dates : CascadeStart("A", salesmanId, fromDate)
  \/ CascadeStep("A", {FALSE})
  \/ \E date \in Dates : req["A"].kind # "get" /\ GetDailySale("A", date, BOOLEAN)

SpecRead == InitCascade /\ [][NextRead]_vars

(* ------------------------- words of the claims ------------------------ *)

Recs == {db[i] : i \in 1..Len(db)}
RecsOf(sid) == {r \in Recs : r.salesmanId = sid}
Has(x) == x.t = "num"
WholeCents(x) == x % 10 = 0

\* The records of sid on the greatest date before date.
NearestEarlier(sid, date) ==
  {q \in RecsOf(sid) : /\ q.date < date
                       /\ \A q2 \in RecsOf(sid) : q2.date < date => q2.date <= q.date}

OnDate(sid, date) == {r \in RecsOf(sid) : r.date = date}
CascadeSet(sid, date) == {r \in RecsOf(sid) : r.date > date}
FirstOfCascadeSet(sid, date) ==
  {r \in CascadeSet(sid, date) : \A r2 \in CascadeSet(sid, date) : r.date <= r2.date}

\* recalculateFutureDues(salesmanId, date), called on its own, has returned.
Ran(p) == req[p].kind = "direct" /\ req[p].pc = "done" /\ req[p].outcome = "ok"
RanOn(p) == CascadeSet(req[p].salesmanId, req[p].date)

\* currDue, else currentDue, else due, else 0.
LegacyDue(r) ==
  IF Has(r.currDue) THEN r.currDue
  ELSE IF Has(r.currentDue) THEN r.currentDue
  ELSE IF Has(r.due) THEN r.due ELSE N(0)

Total(r) == SumTotals(r.categories)

(* ------------------------------- claims ------------------------------- *)

\* C1: once recalculateFutureDues(salesmanId, D) has returned, every record
\* of the salesman after D has prevDue equal to the stored currDue of his
\* nearest earlier record (read for the earlier records that carry a currDue).
C1_ChainAfterCascade ==
  Ran("A") =>
    \A r \in RanOn("A") :
      \A q \in NearestEarlier(r.salesmanId, r.date) :
        Has(q.currDue) => r.prevDue = q.currDue

C5_StoredToTwoDecimals ==
  Ran("A") =>
    \A r \in RanOn("A") :
      /\ WholeCents(r.prevDue.v)
      /\ WholeCents(r.totalAmount.v)
      /\ WholeCents(r.totalDue.v)
      /\ WholeCents(r.currDue.v)

\* C7: the starting prevDue is currDue, else currentDue, else due, else 0 of
\* the record on the anchor date, and of the nearest earlier record when the
\* anchor date has none.
C7_LegacySeed ==
  LET r == req["A"]
  IN (r.kind = "direct" /\ r.seed # <<>>) =>
       IF OnDate(r.salesmanId, r.date) # {}
       THEN \A a \in OnDate(r.salesmanId, r.date) : r.seed[1] = LegacyDue(a)
       ELSE IF NearestEarlier(r.salesmanId, r.date) # {}
       THEN \A q \in NearestEarlier(r.salesmanId, r.date) : r.seed[1] = LegacyDue(q)
       ELSE r.seed[1] = N(0)

\* C8: the starting prevDue is the currDue of the record on the anchor date
\* when there is one; else the currDue of the salesman's record of the
\* greatest earlier date; else 0; and the first record of the cascade set is
\* stored with that starting prevDue (0 in the last case).
C8_SeedSelection ==
  LET r == req["A"]
      anchor == OnDate(r.salesmanId, r.date)
      near == NearestEarlier(r.salesmanId, r.date)
  IN (r.kind = "direct" /\ r.seed # <<>>) =>
       /\ \A a \in anchor : Has(a.currDue) => r.seed[1] = a.currDue
       /\ anchor = {} => \A q \in near : Has(q.currDue) => r.seed[1] = q.currDue
       /\ (anchor = {} /\ near = {}) => r.seed[1] = N(0)
       /\ Ran("A") => \A f \in FirstOfCascadeSet(r.salesmanId, r.date) :
                         f.prevDue = r.seed[1]

\* No record on the anchor date, two earlier records, and a record after it
\* that the cascade has rewritten from the later of the two.
C8_Witness ==
  LET r == req["A"]
  IN /\ Ran("A")
     /\ OnDate(r.salesmanId, r.date) = {}
     /\ Cardinality({q \in RecsOf(r.salesmanId) : q.date < r.date}) = 2
     /\ \E q \in NearestEarlier(r.salesmanId, r.date) :
          Has(q.currDue) /\ q.currDue.v # 0
     /\ RanOn("A") # {}

\* C9: the same cascade run a second time, with no write in between, leaves
\* every record as the first run left it.
C9_Idempotent == (Ran("A") /\ rerun) => db = snap

\* The second run has returned, over a cascade set of two records or more.
C9_Witness == Ran("A") /\ rerun /\ Cardinality(RanOn("A")) >= 2

\* C2: with every submission so far completed, each record's prevDue is the
\* currDue of the same salesman's nearest earlier record.
C2_GlobalChain ==
  (\A p \in Procs : Free(p) /\ req[p].clean) =>
    \A r \in Recs :
      \A q \in NearestEarlier(r.salesmanId, r.date) :
        Has(q.currDue) => r.prevDue = q.currDue

\* C3: never two records of one salesman on one date.
C3_OnePerSalesmanAndDate ==
  \A i, j \in 1..Len(db) :
    (db[i].salesmanId = db[j].salesmanId /\ db[i].date = db[j].date) => i = j

\* C6: a submission whose cascade met a store failure is still answered 201,
\* after the notification.
C6_CascadeFailureNotPropagated ==
  \A p \in Procs :
    (/\ req[p].kind = "post"
     /\ req[p].pc = "done"
     /\ req[p].failedAt \in {"find_future", "find_anchor", "find_last", "update"})
    => (req[p].status = 201 /\ req[p].emitted)

\* C10: once two interleaved submissions for the same salesman are both
\* answered, the store is what the cascade of the one that inserted last
\* makes of the final records when run alone.
C10_LaterCommitWins ==
  (\A p \in Procs : req[p].kind = "post" /\ req[p].pc = "done" /\ req[p].status = 201)
  => RecalculateAlone(db, "s1", req[lastCommit].date) = db

\* C11: the cascade of a sales entry that carries no salesmanId is rejected
\* before it reads or writes the store: it never gets past its first find.
C11_RejectedBeforeStoreAccess ==
  \A p \in Procs :
    (req[p].kind = "post" /\ req[p].salesmanId = NoSalesman)
    => req[p].pc \notin {"find_anchor", "find_last", "update"}

\* The entry of the answer for one salesman, and what is stored for him.
Answered(p) == req[p].kind = "get" /\ req[p].status = 200
EntriesOf(p, sid) ==
  {req[p].response[i] : i \in {j \in 1..Len(req[p].response) :
                                 req[p].response[j].salesmanId = sid}}
Unusable(x) == ~Has(x) \/ x.v = 0

\* C12: in the answer of a GET, a record whose stored prevDue is missing or 0
\* is reported with the currDue of the salesman's nearest earlier record as
\* its prevDue, whatever the gap of days between the two.
C12_FilledFromNearestEarlier ==
  \A p \in Procs : Answered(p) =>
    \A sid \in Salesmen : \A r \in OnDate(sid, req[p].date) :
      Unusable(r.prevDue) =>
        \A q \in NearestEarlier(sid, req[p].date) : Has(q.currDue) =>
          \A e \in EntriesOf(p, sid) : e.prevDue = q.currDue

FailedAtWrite(p) ==
  req[p].kind = "direct" /\ req[p].pc = "done" /\ req[p].failedAt = "update"
NotRewritten(p) == {req[p].futureSales[i].id : i \in 1..Len(req[p].futureSales)}
Before(id) == {snap[i] : i \in {j \in 1..Len(snap) : snap[j].id = id}}
WouldBe(p, id) ==
  LET full == RecalculateAlone(snap, req[p].salesmanId, req[p].date)
  IN {full[i] : i \in {j \in 1..Len(full) : full[j].id = id}}

\* C14: when the store write of the k-th record of the walk fails, the k-1
\* records before it hold the values the cascade gives them, and the k-th
\* record and every later one are as they were when the cascade started.
C14_PartialCascadeKept ==
  \A p \in Procs : FailedAtWrite(p) =>
    \A r \in RanOn(p) :
      IF r.id \in NotRewritten(p) THEN r \in Before(r.id) ELSE r \in WouldBe(p, r.id)

\* The write of the second record or a later one fails: a record before it
\* has changed, and the one of the failed write would have changed too.
C14_Witness ==
  \E p \in Procs : FailedAtWrite(p) /\ Len(req[p].futureSales) >= 2 /\
    \E r, q \in RanOn(p) :
      /\ r.id \notin NotRewritten(p) /\ r \notin Before(r.id)
      /\ q.id = req[p].futureSales[1].id /\ q \notin WouldBe(p, q.id)

\* What a step leaves of a record: everything, or everything but the four
\* due fields.
SameButDues(a, b) ==
  /\ a.id = b.id /\ a.salesmanId = b.salesmanId /\ a.date = b.date
  /\ a.categories = b.categories /\ a.deposit = b.deposit
  /\ a.currentDue = b.currentDue /\ a.due = b.due
CascadeWrites(p) == req[p].kind = "direct" /\ req[p].pc = "update"

\* C15: no step of recalculateFutureDues(s, D) creates or deletes a record; a
\* step changes, of a record of s dated after D, nothing but prevDue,
\* totalAmount, totalDue and currDue, and changes no other record at all;
\* a GET changes no stored record.
C15_CascadeFrame ==
  [][/\ Len(db') = Len(db)
     /\ \A i \in 1..Len(db) :
          \/ db'[i] = db[i]
          \/ /\ CascadeWrites("A")
             /\ db[i].salesmanId = req["A"].salesmanId
             /\ db[i].date > req["A"].date
             /\ SameButDues(db[i], db'[i])]_vars

\* A GET has answered after a cascade that rewrote a record of the store the
\* call had found, to other due fields.
C15_Witness ==
  /\ Answered("A") /\ snap # <<>> /\ Len(db) = Len(snap)
  /\ \E i \in 1..Len(db) : db[i] # snap[i] /\ SameButDues(db[i], snap[i])
  /\ \E i \in 1..Len(db) : db[i] = snap[i] /\ db[i].salesmanId = "s1"

\* The documents stored for a date, in natural order, without their _id, and
\* the entries of a batch as documents of that date.
StoredFor(date) ==
  LET m == SelectSeq(db, LAMBDA r : r.date = date)
  IN [i \in 1..Len(m) |-> [m[i] EXCEPT !.id = 0]]
Submitted(p) == [i \in 1..Len(req[p].sales) |-> DocOf(req[p].sales[i], req[p].date, 0)]
SalesmenOfBatch(p) == {req[p].sales[i].salesmanId : i \in 1..Len(req[p].sales)}
InCascade(p) == req[p].pc \in {"find_future", "find_anchor", "find_last", "update"}
PastInsert(p) == InCascade(p) \/ req[p].pc \in {"emit", "respond"} \/ req[p].status = 201

\* C16: in a submission that is answered 201, from the insert on the records
\* of the date are exactly the submitted entries; recalculateFutureDues then
\* returns once for each distinct salesmanId of the batch, one call at a
\* time; 'daily-sale-updated' is emitted only when every one of them has
\* returned, and the answer is given only after the emit.
C16_SubmissionOrder ==
  \A p \in Procs : req[p].kind = "post" =>
    /\ PastInsert(p) => StoredFor(req[p].date) = Submitted(p)
    /\ \A i, j \in 1..Len(req[p].cascaded) :
         req[p].cascaded[i] = req[p].cascaded[j] => i = j
    /\ \A i \in 1..Len(req[p].cascaded) : req[p].cascaded[i] \in SalesmenOfBatch(p)
    /\ InCascade(p) =>
         /\ ~req[p].emitted
         /\ \A i \in 1..Len(req[p].cascaded) : req[p].cascaded[i] # req[p].salesmanId
    /\ req[p].pc \in {"delete", "insert"} => ~req[p].emitted /\ req[p].cascaded = <<>>
    /\ (req[p].emitted \/ req[p].pc = "emit") =>
         {req[p].cascaded[i] : i \in 1..Len(req[p].cascaded)} = SalesmenOfBatch(p)
    /\ req[p].status = 201 => req[p].emitted
    /\ req[p].emitted => req[p].pc \in {"respond", "done"} /\ req[p].status \in {0, 201}

\* An answered submission of three entries for two salesmen, with later
\* records of both salesmen.
C16_Witness ==
  \E p \in Procs :
    /\ req[p].kind = "post" /\ req[p].status = 201
    /\ Len(req[p].sales) = 3 /\ Len(req[p].cascaded) = 2
    /\ CascadeSet("s1", req[p].date) # {} /\ CascadeSet("s2", req[p].date) # {}

\* Two calls of recalculateFutureDues, made together, have both returned or
\* are under way.
BothRan == Ran("A") /\ Ran("B")
Fetched(p) == {req[p].futureSales[i].id : i \in 1..Len(req[p].futureSales)}
OneAfterTheOther(p, q) ==
  RecalculateAlone(RecalculateAlone(snap, req[p].salesmanId, req[p].date),
                   req[q].salesmanId, req[q].date)

\* C17: cascades for two different salesmen work on disjoint sets of records,
\* and whatever the interleaving of their steps, the store they leave is the
\* one that running them one after the other leaves, in either order.
C17_IndependentCascades ==
  (req["A"].kind = "direct" /\ req["B"].kind = "direct"
   /\ req["A"].salesmanId # req["B"].salesmanId) =>
    /\ Fetched("A") \cap Fetched("B") = {}
    /\ BothRan => db = OneAfterTheOther("A", "B") /\ db = OneAfterTheOther("B", "A")

\* Both have returned, each after rewriting two records or more.
C17_Witness ==
  /\ BothRan /\ req["A"].salesmanId # req["B"].salesmanId
  /\ \A p \in Procs :
       Cardinality({i \in 1..Len(db) : db[i].salesmanId = req[p].salesmanId
                                       /\ db[i] # snap[i]}) >= 2

\* The sum of the totals that are numbers, of categories if it is a list,
\* and the deposit if it is a number: what the claim counts, the rest as 0.
RECURSIVE NumericSum(_, _)
NumericSum(cats, n) ==
  IF n = 0 THEN 0
  ELSE NumericSum(cats, n - 1) + (IF cats[n].t = "num" THEN cats[n].v ELSE 0)
NumericTotal(r) ==
  IF r.categories = NotAList THEN 0 ELSE NumericSum(r.categories, Len(r.categories))
NumericDeposit(r) == IF r.deposit.t = "num" THEN r.deposit.v ELSE 0
BadTotalOrDeposit(r) ==
  \/ r.categories = NotAList
  \/ r.deposit.t \in {"none", "str"}
  \/ \E i \in 1..Len(r.categories) : r.categories[i].t \in {"none", "str"}
NoNullEntry(r) == \A i \in 1..Len(r.categories) : r.categories[i].t # "null"

\* C18: a record of the cascade set whose totals or deposit are missing or
\* no numbers, or whose categories is no list, does not make the cascade
\* fail; the cascade that has returned has rewritten it and every later
\* record, with every such value counted as 0.
C18_BadDataCountsAsZero ==
  \A p \in Procs : req[p].kind = "direct" =>
    /\ (req[p].pc = "done" /\ req[p].failedAt = "reduce") =>
         ~NoNullEntry(Head(req[p].futureSales))
    /\ Ran(p) =>
         \A r \in RanOn(p) :
           /\ r.totalAmount = N(ToFixed2(NumericTotal(r)))
           /\ Has(r.prevDue)
           /\ r.totalDue = N(ToFixed2(NumericTotal(r) + r.prevDue.v))
           /\ r.currDue = N(ToFixed2(NumericTotal(r) + r.prevDue.v - NumericDeposit(r)))

\* A returned cascade over a record with a missing total, a total and a
\* deposit that are no numbers, and a later record whose categories is no
\* list, which carries the balance of the first on.
C18_Witness ==
  \E p \in Procs : Ran(p) /\
    \E r, q \in RanOn(p) :
      /\ r.date < q.date
      /\ r.deposit = NaS
      /\ \E i, j \in 1..Len(r.categories) : r.categories[i] = Missing /\ r.categories[j] = NaS
      /\ NumericTotal(r) # 0
      /\ q.categories = NotAList /\ q.deposit = Missing
      /\ q.currDue = r.currDue /\ q.currDue.v # 0 /\ q.totalAmount = N(0)

\* C19: after a submission for date D that is answered 201 and does not list
\* a salesman, he has no record on D, and the first of his records after D
\* has as prevDue the currDue of his nearest earlier record that is left, 0
\* when none is left.
C19_OmittedSalesmanStaysConsistent ==
  \A p \in Procs : (req[p].kind = "post" /\ req[p].status = 201) =>
    \A sid \in Salesmen \ SalesmenOfBatch(p) :
      /\ OnDate(sid, req[p].date) = {}
      /\ \A r \in FirstOfCascadeSet(sid, req[p].date) :
           /\ NearestEarlier(sid, r.date) = {} => r.prevDue = N(0)
           /\ \A q \in NearestEarlier(sid, r.date) : Has(q.currDue) => r.prevDue = q.currDue

====
